---------------------------- MODULE Spec2Model ----------------------------
(***************************************************************************)
(* The request lifecycle and cancellation protocol of the /generate        *)
(* endpoint in src/vllm/entrypoints/api_server.py (LanguageModel.generate). *)
(*                                                                         *)
(* One action per segment of the handler between two suspension points     *)
(* (asyncio runs such a segment atomically).  The generation engine        *)
(* (engine.generate / engine.abort), SamplingParams and random_uuid live   *)
(* outside src/; they are modelled from the specification's section 6.     *)
(* The ASGI framework (StreamingResponse, BackgroundTasks, Request) is the *)
(* environment: its documented behaviour is modelled where the handler     *)
(* hands control to it (line 61) or polls it (line 66).                    *)
(***************************************************************************)
EXTENDS Integers, Sequences, FiniteSets, TLC

\* ------------------------------------------------------------------ bounds
\* Most elements one engine sequence yields before it must end.
MaxElems == 2

\* ---------------------------------------------------------------- universe
Reqs == {1, 2}
Ids == {"u1", "u2"}
NoId == "none"
None == [prompt |-> <<>>, outputs |-> <<>>, none |-> TRUE]
QUOTE == "\""
BSLASH == "\\"
NUL == "NUL"
\* Characters generated text is made of: a plain one and one json must escape.
Alphabet == {"a", QUOTE}
Prompts == {<<"p">>, <<"q">>}
NoBody == [hasPrompt |-> FALSE, prompt |-> <<>>, stream |-> "absent", n |-> 1,
           sent |-> FALSE]
\* Request bodies: "prompt" present or not, "stream" true, false or absent,
\* and one sampling option, n (0 is rejected by SamplingParams).
Bodies ==
  {b \in [hasPrompt : BOOLEAN, prompt : Prompts \cup {<<>>},
          stream : {"true", "false", "absent"}, n : {0, 1, 2}, sent : {TRUE}] :
      /\ b.hasPrompt <=> b.prompt # <<>>
      /\ ~b.hasPrompt => b.n = 1}

VARIABLES
  body,            \* r -> the decoded request body (request.json())
  pc,              \* r -> where the handler / response task of r stands
  discAt,          \* r -> where r stood when its client disconnected, if it did
  request_id,      \* r -> the handler's request_id local (line 41)
  request_output,  \* r -> the loop variable of line 65
  final_output,    \* r -> the handler's final_output local (line 64)
  response,        \* r -> status and body the server produced for r
  chunks,          \* r -> the chunks stream_results has yielded
  sent,            \* r -> the chunks the transport accepted
  session,         \* id -> the engine-side state of the session
  produced,        \* id -> the RequestOutputs the result sequence yielded
  submits,         \* id -> the arguments of each engine.generate call
  aborts,          \* id -> the requests whose code called engine.abort(id)
  polls            \* r -> the number of request.is_disconnected() calls made

vars == <<body, pc, discAt, request_id, request_output, final_output,
          response, chunks, sent, session, produced, submits, aborts, polls>>

\* No disconnect so far; otherwise the handler's pc, the number of elements
\* received and the number of chunks accepted at the disconnect.
Never == [pc |-> "never", elems |-> 0, sent |-> 0]
connected(r) == discAt[r] = Never

\* ------------------------------------------------------------ serialization
\* ord() of the characters that occur on the wire.
Ord(c) ==
  CASE c = NUL -> 0
    [] c = " " -> 32
    [] c = QUOTE -> 34
    [] c = "," -> 44
    [] c = ":" -> 58
    [] c = "[" -> 91
    [] c = BSLASH -> 92
    [] c = "]" -> 93
    [] c = "a" -> 97
    [] c = "e" -> 101
    [] c = "p" -> 112
    [] c = "q" -> 113
    [] c = "t" -> 116
    [] c = "x" -> 120
    [] c = "{" -> 123
    [] c = "}" -> 125

\* str.encode("utf-8") of an ASCII string: one byte per character.
Utf8Encode(s) == [i \in 1..Len(s) |-> Ord(s[i])]

\* json's string escaping of one character (ensure_ascii or not, the same here).
EscapeChar(c) ==
  IF c = QUOTE \/ c = BSLASH THEN <<BSLASH, c>> ELSE <<c>>

RECURSIVE EscapeStr(_)
EscapeStr(s) ==
  IF s = <<>> THEN <<>> ELSE EscapeChar(Head(s)) \o EscapeStr(Tail(s))

JsonString(s) == <<QUOTE>> \o EscapeStr(s) \o <<QUOTE>>

RECURSIVE JsonItems(_, _)
JsonItems(texts, itemSep) ==
  IF texts = <<>> THEN <<>>
  ELSE IF Len(texts) = 1 THEN JsonString(texts[1])
  ELSE JsonString(Head(texts)) \o itemSep \o JsonItems(Tail(texts), itemSep)

\* json.dumps({"text": texts}, separators=(itemSep, keySep)).
JsonDumps(texts, itemSep, keySep) ==
  <<"{">> \o JsonString(<<"t", "e", "x", "t">>) \o keySep
          \o <<"[">> \o JsonItems(texts, itemSep) \o <<"]", "}">>

\* (mutant) the newest character of each candidate instead of its whole text.
TextOutputsDelta(o) ==
  [i \in 1..Len(o.outputs) |->
     o.prompt \o (IF o.outputs[i] = <<>> THEN <<>>
                  ELSE <<o.outputs[i][Len(o.outputs[i])]>>)]

\* Lines 47-50 and 73-74: [prompt + output.text for output in o.outputs].
TextOutputs(o) == [i \in 1..Len(o.outputs) |-> o.prompt \o o.outputs[i]]

\* Line 52: (json.dumps(ret) + "\0").encode("utf-8"), json's default separators.
StreamChunk(o) ==
  Utf8Encode(JsonDumps(TextOutputs(o), <<",", " ">>, <<":", " ">>) \o <<NUL>>)

\* Line 76: JSONResponse(ret) renders with the compact separators.
JsonBody(o) == Utf8Encode(JsonDumps(TextOutputs(o), <<",">>, <<":">>))

\* -------------------------------------------------------------- the engine
Terminal == {"Completed", "Cancelled", "Failed"}

\* SamplingParams(**request_dict): the engine's validation of the options.
SamplingParamsOk(b) == b.n >= 1

\* (mutant) abort marks the session cancelled whatever its state.
EngineAbortAlways(st) == "Cancelled"

\* engine.abort(id): cancels a live session, silent on any other id.
EngineAbort(st) == IF st \in {"Admitted", "Active"} THEN "Cancelled" ELSE st

\* The candidate texts the next element may carry, given the previous one:
\* an extension by one character, or a retraction to the empty text.
CandNext(t) ==
  {Append(t, c) : c \in Alphabet} \cup (IF t = <<>> THEN {} ELSE {<<>>})

PrevOutputs(id) ==
  IF produced[id] = <<>>
  THEN [i \in 1..submits[id][1].n |-> <<>>]
  ELSE produced[id][Len(produced[id])].outputs

\* The RequestOutputs the result sequence of id may yield next.
NextElems(id) ==
  LET n == submits[id][1].n
      prev == PrevOutputs(id)
      texts == UNION {CandNext(prev[i]) : i \in 1..n}
  IN IF Len(produced[id]) >= MaxElems THEN {}
     ELSE {[prompt |-> submits[id][1].prompt, outputs |-> outs, none |-> FALSE] :
             outs \in {f \in [1..n -> texts] :
                         \A i \in 1..n : f[i] \in CandNext(prev[i])}}

\* random_uuid(): an id no request was given before.
FreshIds == {u \in Ids : \A r \in Reqs : request_id[r] # u}

\* ------------------------------------------------------------------ responses
NoResponse == [status |-> 0, kind |-> "none", body |-> <<>>]
\* (mutant) the failure is caught and answered with the default status.
ErrorAnswered200 == [status |-> 200, kind |-> "error", body |-> <<>>]

\* What the framework answers when the handler raises.
InternalServerError == [status |-> 500, kind |-> "error", body |-> <<>>]
\* (mutant) the empty response is built without its status code.
ClientClosedDefaultStatus == [status |-> 200, kind |-> "empty", body |-> <<>>]

\* Line 69: Response(status_code=499).
ClientClosed == [status |-> 499, kind |-> "empty", body |-> <<>>]
JSONResponse(o) == [status |-> 200, kind |-> "json", body |-> JsonBody(o)]
StreamingHead == [status |-> 200, kind |-> "stream", body |-> <<>>]

\* ---------------------------------------------------------------------- Init
InitWith(bodies) ==
  /\ body \in bodies
  /\ pc = [r \in Reqs |-> IF body[r].sent THEN "start" ELSE "absent"]
  /\ discAt = [r \in Reqs |-> Never]
  /\ request_id = [r \in Reqs |-> NoId]
  /\ request_output = [r \in Reqs |-> None]
  /\ final_output = [r \in Reqs |-> None]
  /\ response = [r \in Reqs |-> NoResponse]
  /\ chunks = [r \in Reqs |-> <<>>]
  /\ sent = [r \in Reqs |-> <<>>]
  /\ session = [u \in Ids |-> "Unknown"]
  /\ produced = [u \in Ids |-> <<>>]
  /\ submits = [u \in Ids |-> <<>>]
  /\ aborts = [u \in Ids |-> <<>>]
  /\ polls = [r \in Reqs |-> 0]

\* One request, any body.
Init == InitWith({f \in [Reqs -> Bodies \cup {NoBody}] :
                    f[1] \in Bodies /\ f[2] = NoBody})

\* ------------------------------------------------------------------- actions
\* Lines 37-42: decode the body, pop "prompt" and "stream", build the
\* SamplingParams, draw the request id and submit to the engine.  A missing
\* "prompt" (KeyError, line 38) or rejected options (line 40) are not caught:
\* the framework answers 500.
Admit(r) ==
  /\ pc[r] = "start"
  /\ \/ /\ ~body[r].hasPrompt
        /\ pc' = [pc EXCEPT ![r] = "done"]
        /\ response' = [response EXCEPT ![r] = InternalServerError]
        /\ UNCHANGED <<request_id, session, submits>>
     \/ /\ body[r].hasPrompt
        /\ ~SamplingParamsOk(body[r])
        /\ pc' = [pc EXCEPT ![r] = "done"]
        /\ response' = [response EXCEPT ![r] = InternalServerError]
        /\ UNCHANGED <<request_id, session, submits>>
     \/ /\ body[r].hasPrompt
        /\ SamplingParamsOk(body[r])
        /\ \E u \in FreshIds :
             /\ request_id' = [request_id EXCEPT ![r] = u]
             /\ submits' = [submits EXCEPT ![u] =
                              Append(@, [prompt |-> body[r].prompt, n |-> body[r].n])]
             /\ session' = [session EXCEPT ![u] = "Admitted"]
        /\ pc' = [pc EXCEPT ![r] = "admitted"]
        /\ UNCHANGED response
  /\ UNCHANGED <<body, polls, discAt, request_output, final_output, chunks, sent,
                 produced, aborts>>

\* Line 39: request_dict.pop("stream", False).
StreamFlag(b) == b.stream = "true"

\* Lines 57-65: hand a StreamingResponse with the abort task to the
\* framework, or enter the blocking loop and wait for the first element.
Dispatch(r) ==
  /\ pc[r] = "admitted"
  /\ \/ /\ StreamFlag(body[r])
        /\ pc' = [pc EXCEPT ![r] = "s_start"]
        /\ UNCHANGED session
     \/ /\ ~StreamFlag(body[r])
        /\ pc' = [pc EXCEPT ![r] = "b_wait"]
        /\ session' = [session EXCEPT ![request_id[r]] = "Active"]
  /\ UNCHANGED <<body, polls, discAt, request_id, request_output, final_output,
                 response, chunks, sent, produced, submits, aborts>>

\* engine.abort(u), as the handler (line 68) and the background task (line 55)
\* call it.
CallAbort(r, u) ==
  /\ aborts' = [aborts EXCEPT ![u] = Append(@, r)]
  /\ session' = [session EXCEPT ![u] = EngineAbort(@)]

\* (mutant) the poll never sees the disconnect.
IsDisconnectedNever(r) == FALSE

\* (mutant) the test is inverted: a live client is taken for a gone one.
IsDisconnectedInverted(r) == connected(r)

\* Line 66: await request.is_disconnected().
IsDisconnected(r) == ~connected(r)

\* (mutant) the id is kept where all requests share it: the abort goes to
\* another request's id.
AbortSharedId(r) == CallAbort(r, CHOOSE u \in Ids : u # request_id[r])

\* (mutant) the disconnect branch returns without aborting.
ReturnWithoutAbort(r) == UNCHANGED <<aborts, session>>

\* Line 68: the abort of the blocking loop.
AbortOnDisconnect(r) == CallAbort(r, request_id[r])

\* (mutant) keeps the first element instead of the latest.
RetainFirst(prev, o) == IF prev = None THEN o ELSE prev

\* Line 70: final_output = request_output.
Retain(prev, o) == o

\* (mutant) some other id than the request's own.
AbortIdOther(r) == CHOOSE u \in Ids : u # request_id[r]

\* (mutant) the new chunk replaces what was yielded before.
YieldLatest(cs, o) == <<StreamChunk(o)>>

\* Line 52: yield the chunk.
Yield(cs, o) == Append(cs, StreamChunk(o))

\* Line 55: the id abort_request() passes to engine.abort.
AbortId(r) == request_id[r]

\* (mutant) no assert: the response is built from whatever final_output is.
ExhaustedResponseUnchecked(fo) == JSONResponse(fo)

\* Lines 72-76: assert final_output is not None, then the JSON response.
ExhaustedResponse(fo) ==
  IF fo = None THEN InternalServerError ELSE JSONResponse(fo)

\* Line 65: the result sequence yields its next element to the blocking loop.
BlockingRecv(r) ==
  /\ pc[r] = "b_wait"
  /\ session[request_id[r]] = "Active"
  /\ \E o \in NextElems(request_id[r]) :
       /\ produced' = [produced EXCEPT ![request_id[r]] = Append(@, o)]
       /\ request_output' = [request_output EXCEPT ![r] = o]
  /\ pc' = [pc EXCEPT ![r] = "b_poll"]
  /\ UNCHANGED <<body, polls, discAt, request_id, final_output, response, chunks,
                 sent, session, submits, aborts>>

\* (mutant) the transport is polled for the first element only; later
\* elements are kept unchecked.
BlockingPollFirstOnly(r) ==
  /\ pc[r] = "b_poll"
  /\ \/ /\ polls[r] = 0
        /\ polls' = [polls EXCEPT ![r] = @ + 1]
        /\ IsDisconnected(r)
        /\ AbortOnDisconnect(r)
        /\ response' = [response EXCEPT ![r] = ClientClosed]
        /\ pc' = [pc EXCEPT ![r] = "done"]
        /\ UNCHANGED final_output
     \/ /\ polls[r] = 0
        /\ polls' = [polls EXCEPT ![r] = @ + 1]
        /\ ~IsDisconnected(r)
        /\ final_output' = [final_output EXCEPT ![r] = request_output[r]]
        /\ pc' = [pc EXCEPT ![r] = "b_wait"]
        /\ UNCHANGED <<aborts, session, response>>
     \/ /\ polls[r] > 0
        /\ final_output' = [final_output EXCEPT ![r] = request_output[r]]
        /\ pc' = [pc EXCEPT ![r] = "b_wait"]
        /\ UNCHANGED <<aborts, session, response, polls>>
  /\ UNCHANGED <<body, discAt, request_id, request_output, chunks, sent,
                 produced, submits>>

\* Lines 66-70: poll the transport; on a disconnect abort and answer 499,
\* otherwise keep the element and wait for the next one.
BlockingPoll(r) ==
  /\ pc[r] = "b_poll"
  /\ polls' = [polls EXCEPT ![r] = @ + 1]
  /\ \/ /\ IsDisconnected(r)
        /\ AbortOnDisconnect(r)
        /\ response' = [response EXCEPT ![r] = ClientClosed]
        /\ pc' = [pc EXCEPT ![r] = "done"]
        /\ UNCHANGED final_output
     \/ /\ ~IsDisconnected(r)
        /\ final_output' = [final_output EXCEPT ![r] =
                              Retain(@, request_output[r])]
        /\ pc' = [pc EXCEPT ![r] = "b_wait"]
        /\ UNCHANGED <<aborts, session, response>>
  /\ UNCHANGED <<body, discAt, request_id, request_output, chunks, sent,
                 produced, submits>>

\* Lines 72-76: the sequence is exhausted; the assert fails on an empty one
\* (AssertionError, answered 500), otherwise the last element is returned.
BlockingExhausted(r) ==
  /\ pc[r] = "b_wait"
  /\ session[request_id[r]] = "Active"
  /\ session' = [session EXCEPT ![request_id[r]] = "Completed"]
  /\ response' = [response EXCEPT ![r] = ExhaustedResponse(final_output[r])]
  /\ pc' = [pc EXCEPT ![r] = "done"]
  /\ UNCHANGED <<body, polls, discAt, request_id, request_output, final_output,
                 chunks, sent, produced, submits, aborts>>

\* Line 65: the engine raises while the blocking loop waits; nothing catches it.
BlockingError(r) ==
  /\ pc[r] = "b_wait"
  /\ session[request_id[r]] = "Active"
  /\ session' = [session EXCEPT ![request_id[r]] = "Failed"]
  /\ response' = [response EXCEPT ![r] = InternalServerError]
  /\ pc' = [pc EXCEPT ![r] = "done"]
  /\ UNCHANGED <<body, polls, discAt, request_id, request_output, final_output,
                 chunks, sent, produced, submits, aborts>>

\* Line 61: the framework starts the response (status line and headers) and
\* begins to iterate stream_results().
StreamStart(r) ==
  /\ pc[r] = "s_start"
  /\ connected(r)
  /\ response' = [response EXCEPT ![r] = StreamingHead]
  /\ session' = [session EXCEPT ![request_id[r]] = "Active"]
  /\ pc' = [pc EXCEPT ![r] = "s_wait"]
  /\ UNCHANGED <<body, polls, discAt, request_id, request_output, final_output,
                 chunks, sent, produced, submits, aborts>>

\* (mutant) elements are pulled and formatted while the previous chunk is
\* still being sent.
StreamNextEager(r) ==
  /\ pc[r] \in {"s_wait", "s_send"}
  /\ connected(r)
  /\ session[request_id[r]] = "Active"
  /\ \E o \in NextElems(request_id[r]) :
       /\ produced' = [produced EXCEPT ![request_id[r]] = Append(@, o)]
       /\ request_output' = [request_output EXCEPT ![r] = o]
       /\ chunks' = [chunks EXCEPT ![r] = Yield(@, o)]
  /\ pc' = [pc EXCEPT ![r] = "s_send"]
  /\ UNCHANGED <<body, polls, discAt, request_id, final_output, response, sent,
                 session, submits, aborts>>

\* Lines 46-52: the sequence yields an element; stream_results formats it and
\* yields the chunk, which the framework starts to send.  The streaming task
\* makes a step only while the client is connected: after a disconnect the
\* await it is parked on is cancelled (StreamCancelled).
StreamNext(r) ==
  /\ pc[r] = "s_wait"
  /\ connected(r)
  /\ session[request_id[r]] = "Active"
  /\ \E o \in NextElems(request_id[r]) :
       /\ produced' = [produced EXCEPT ![request_id[r]] = Append(@, o)]
       /\ request_output' = [request_output EXCEPT ![r] = o]
       /\ chunks' = [chunks EXCEPT ![r] = Yield(@, o)]
  /\ pc' = [pc EXCEPT ![r] = "s_send"]
  /\ UNCHANGED <<body, polls, discAt, request_id, final_output, response, sent,
                 session, submits, aborts>>

\* The transport accepts the chunk in flight; stream_results is resumed.
SendChunk(r) ==
  /\ pc[r] = "s_send"
  /\ connected(r)
  /\ sent' = [sent EXCEPT ![r] = Append(@, chunks[r][Len(chunks[r])])]
  /\ response' = [response EXCEPT ![r].body = @ \o chunks[r][Len(chunks[r])]]
  /\ pc' = [pc EXCEPT ![r] = "s_wait"]
  /\ UNCHANGED <<body, polls, discAt, request_id, request_output, final_output,
                 chunks, session, produced, submits, aborts>>

\* Line 46: the sequence is exhausted; the response body ends and the
\* framework goes on to the background tasks.
StreamExhausted(r) ==
  /\ pc[r] = "s_wait"
  /\ connected(r)
  /\ session[request_id[r]] = "Active"
  /\ session' = [session EXCEPT ![request_id[r]] = "Completed"]
  /\ pc' = [pc EXCEPT ![r] = "s_background"]
  /\ UNCHANGED <<body, polls, discAt, request_id, request_output, final_output,
                 response, chunks, sent, produced, submits, aborts>>

\* Line 46: the engine raises inside stream_results; the exception leaves the
\* response task, and the framework runs no background task after it.
StreamError(r) ==
  /\ pc[r] = "s_wait"
  /\ connected(r)
  /\ session[request_id[r]] = "Active"
  /\ session' = [session EXCEPT ![request_id[r]] = "Failed"]
  /\ pc' = [pc EXCEPT ![r] = "done"]
  /\ UNCHANGED <<body, polls, discAt, request_id, request_output, final_output,
                 response, chunks, sent, produced, submits, aborts>>

\* Line 61: on a disconnect the framework cancels the streaming task where it
\* is suspended and goes on to the background tasks.
StreamCancelled(r) ==
  /\ pc[r] \in {"s_start", "s_wait", "s_send"}
  /\ ~connected(r)
  /\ pc' = [pc EXCEPT ![r] = "s_background"]
  /\ UNCHANGED <<body, polls, discAt, request_id, request_output, final_output,
                 response, chunks, sent, session, produced, submits, aborts>>

\* (mutant) the coroutine is created but never awaited: no abort reaches
\* the engine.
AbortRequestNotAwaited(r) ==
  /\ pc[r] = "s_background"
  /\ pc' = [pc EXCEPT ![r] = "done"]
  /\ UNCHANGED <<body, polls, discAt, request_id, request_output, final_output,
                 response, chunks, sent, session, produced, submits, aborts>>

\* Lines 54-55 and 60: the background task abort_request().
AbortRequest(r) ==
  /\ pc[r] = "s_background"
  /\ CallAbort(r, AbortId(r))
  /\ pc' = [pc EXCEPT ![r] = "done"]
  /\ UNCHANGED <<body, polls, discAt, request_id, request_output, final_output,
                 response, chunks, sent, produced, submits>>

\* The client goes away; the transport reports it from now on
\* (request.is_disconnected(), line 66).
Disconnect(r) ==
  /\ pc[r] \notin {"absent", "done"}
  /\ connected(r)
  /\ discAt' = [discAt EXCEPT ![r] =
                  [pc |-> pc[r],
                   elems |-> IF request_id[r] = NoId THEN 0
                             ELSE Len(produced[request_id[r]]),
                   sent |-> Len(sent[r])]]
  /\ UNCHANGED <<body, polls, pc, request_id, request_output, final_output, response,
                 chunks, sent, session, produced, submits, aborts>>

Next ==
  \E r \in Reqs :
    \/ Admit(r)
    \/ Dispatch(r)
    \/ BlockingRecv(r)
    \/ BlockingPoll(r)
    \/ BlockingExhausted(r)
    \/ BlockingError(r)
    \/ StreamStart(r)
    \/ StreamNext(r)
    \/ SendChunk(r)
    \/ StreamExhausted(r)
    \/ StreamError(r)
    \/ StreamCancelled(r)
    \/ AbortRequest(r)
    \/ Disconnect(r)

Spec == Init /\ [][Next]_vars

\* Two concurrent requests with valid bodies, one candidate each.
InitConc ==
  InitWith({f \in [Reqs -> Bodies] :
              \A r \in Reqs :
                /\ f[r].hasPrompt /\ f[r].n = 1 /\ f[r].stream # "absent"
                /\ f[r].prompt = (IF r = 1 THEN <<"p">> ELSE <<"q">>)})

SpecConc == InitConc /\ [][Next]_vars

\* The steps of r's handler and response task, and of the engine for r: all
\* but the client's disconnect.
Progress(r) ==
  \/ Admit(r) \/ Dispatch(r)
  \/ BlockingRecv(r) \/ BlockingPoll(r) \/ BlockingExhausted(r) \/ BlockingError(r)
  \/ StreamStart(r) \/ StreamNext(r) \/ SendChunk(r) \/ StreamExhausted(r)
  \/ StreamError(r) \/ StreamCancelled(r) \/ AbortRequest(r)

\* The event loop runs every task that is ready, and the engine's sequence is
\* finite: it yields, ends or raises whenever its consumer waits for it.
\* One request, any body with a single candidate.
InitFair == InitWith({f \in [Reqs -> Bodies \cup {NoBody}] :
                        f[1] \in Bodies /\ f[1].n <= 1 /\ f[2] = NoBody})

FairSpec ==
  InitFair /\ [][Next]_vars /\ \A r \in Reqs : WF_vars(Progress(r))

\* ------------------------------------------------------------ type invariant
PCs == {"absent", "start", "admitted", "b_wait", "b_poll", "s_start",
        "s_wait", "s_send", "s_background", "done"}

TypeOK ==
  /\ pc \in [Reqs -> PCs]
  /\ \A r \in Reqs : discAt[r].pc \in PCs \cup {"never"}
  /\ request_id \in [Reqs -> Ids \cup {NoId}]
  /\ session \in [Ids -> {"Unknown", "Admitted", "Active"} \cup Terminal]
  /\ \A u \in Ids : Len(produced[u]) <= MaxElems /\ aborts[u] \in Seq(Reqs)
  /\ polls \in [Reqs -> 0..MaxElems]


\* --------------------------------------------------- the client's decoding
WireChars == {NUL, " ", QUOTE, ",", ":", "[", BSLASH, "]", "a", "e", "p", "q",
              "t", "x", "{", "}"}
Chr(b) == CHOOSE c \in WireChars : Ord(c) = b
Utf8Decode(bytes) == [i \in 1..Len(bytes) |-> Chr(bytes[i])]

\* The strings of a json text, in order, unescaped (all of them belong to the
\* "text" array once the key is skipped).
RECURSIVE ParseItems(_, _, _, _, _)
ParseItems(s, i, inStr, cur, acc) ==
  IF i > Len(s) THEN acc
  ELSE IF inStr
       THEN IF s[i] = BSLASH /\ i < Len(s)
            THEN ParseItems(s, i + 2, TRUE, Append(cur, s[i + 1]), acc)
            ELSE IF s[i] = QUOTE
                 THEN ParseItems(s, i + 1, FALSE, <<>>, Append(acc, cur))
                 ELSE ParseItems(s, i + 1, TRUE, Append(cur, s[i]), acc)
       ELSE IF s[i] = QUOTE
            THEN ParseItems(s, i + 1, TRUE, <<>>, acc)
            ELSE ParseItems(s, i + 1, FALSE, cur, acc)

\* json.loads(body)["text"]
JsonTexts(bytes) ==
  LET s == Utf8Decode(bytes)
      open == CHOOSE k \in 1..Len(s) : s[k] = "[" /\ \A j \in 1..(k - 1) : s[j] # "["
  IN ParseItems(s, open + 1, FALSE, <<>>, <<>>)

\* A chunk is framed when NUL is its last byte and occurs nowhere else in it.
Framed(chunk) ==
  /\ Len(chunk) >= 1
  /\ \A i \in 1..Len(chunk) : (chunk[i] = 0) <=> (i = Len(chunk))

ChunkTexts(chunk) == JsonTexts(SubSeq(chunk, 1, Len(chunk) - 1))

\* The payload the specification asks for: prompt + o.text for each candidate.
Payload(o) == [i \in 1..Len(o.outputs) |-> o.prompt \o o.outputs[i]]

IsPrefix(s, t) == Len(s) <= Len(t) /\ SubSeq(t, 1, Len(s)) = s

Admitted(r) == request_id[r] # NoId
Streaming(r) == Admitted(r) /\ StreamFlag(body[r])
Blocking(r) == Admitted(r) /\ ~StreamFlag(body[r])
Elems(r) == produced[request_id[r]]
Last(q) == q[Len(q)]
\* The number of engine.abort calls made with r's request id.
Aborts(r) == Len(aborts[request_id[r]])

\* ------------------------------------------------------------------- claims
\* C1: a blocking request answered 200 returns exactly prompt + o.text for
\* each output o of the last element its result sequence yielded; no earlier
\* element contributes.
C1_BlockingReturnsLastElement ==
  \A r \in Reqs :
    (Blocking(r) /\ response[r].status = 200) =>
      /\ Elems(r) # <<>>
      /\ JsonTexts(response[r].body) = Payload(Last(Elems(r)))

C1_Witness ==
  \E r \in Reqs :
    /\ Blocking(r) /\ response[r].status = 200
    /\ Len(Elems(r)) = 2
    /\ Len(Elems(r)[2].outputs) = 2
    /\ Payload(Elems(r)[1]) # Payload(Elems(r)[2])
    /\ \E i \in 1..2 : \E k \in 1..Len(Elems(r)[2].outputs[i]) :
         Elems(r)[2].outputs[i][k] = QUOTE

\* C2: in streaming mode there is one chunk per element the result sequence
\* yielded, in the same order: chunk i is the framed serialization of
\* element i, none skipped, duplicated or reordered.
C2_ChunksFollowElements ==
  \A r \in Reqs :
    Streaming(r) =>
      /\ Len(chunks[r]) = Len(Elems(r))
      /\ \A i \in 1..Len(chunks[r]) :
           /\ Framed(chunks[r][i])
           /\ ChunkTexts(chunks[r][i]) = Payload(Elems(r)[i])

C2_Witness ==
  \E r \in Reqs :
    /\ Streaming(r) /\ pc[r] = "done"
    /\ session[request_id[r]] = "Completed"
    /\ Len(chunks[r]) = 2
    /\ chunks[r][1] # chunks[r][2]
    /\ Len(Elems(r)[2].outputs) = 2

\* Where a handler stands while it consumes its result sequence.
Consuming == {"b_wait", "b_poll", "s_wait", "s_send"}
DisconnectedWhileConsuming(r) == Admitted(r) /\ discAt[r].pc \in Consuming

\* The blocking loop polled the transport after the client had gone: an
\* element was received but not yet polled at the disconnect, or one was
\* received later.
DetectedAtPoll(r) ==
  /\ Blocking(r)
  /\ ~connected(r)
  /\ \/ discAt[r].pc = "b_poll"
     \/ Len(Elems(r)) > discAt[r].elems

\* C3 (as claimed), for an engine that yields elements and does not fail: a
\* disconnect at any point of the consumption, in either mode, leads to at
\* least one engine abort for the session, and the client is sent nothing
\* after it.
C3_AbortOnEveryDisconnect ==
  \A r \in Reqs :
    (/\ pc[r] = "done" /\ DisconnectedWhileConsuming(r)
     /\ Elems(r) # <<>> /\ session[request_id[r]] # "Failed") =>
      /\ Aborts(r) >= 1
      /\ Len(sent[r]) = discAt[r].sent

\* C3 (amended): in streaming mode every disconnect during the consumption
\* leads to the abort; in blocking mode the abort is issued exactly when a
\* liveness poll follows the disconnect, so a client that goes away after the
\* last element was polled gets no abort.  Nothing is sent after a disconnect.
C3_AbortOnObservedDisconnect ==
  \A r \in Reqs :
    (pc[r] = "done" /\ DisconnectedWhileConsuming(r)) =>
      /\ Streaming(r) => Aborts(r) >= 1
      /\ Blocking(r) => (Aborts(r) >= 1 <=> DetectedAtPoll(r))
      /\ Len(sent[r]) = discAt[r].sent

C3_Witness ==
  \E r \in Reqs :
    /\ pc[r] = "done" /\ Blocking(r)
    /\ discAt[r].pc = "b_wait"
    /\ DetectedAtPoll(r)
    /\ Aborts(r) = 1

\* C4 (as claimed), for an engine that yields elements and does not fail: a
\* blocking request whose client disconnected during the consumption ends with
\* 499 and no body, never with a 200 carrying text.
C4_DisconnectAlways499 ==
  \A r \in Reqs :
    (/\ pc[r] = "done" /\ Blocking(r) /\ DisconnectedWhileConsuming(r)
     /\ Elems(r) # <<>> /\ session[request_id[r]] # "Failed") =>
      response[r] = ClientClosed

\* C4 (amended): a blocking request ends with 499 and no body exactly when a
\* liveness poll (one follows each received element) found the client gone; a
\* disconnect no poll observed does not prevent the 200.
C4_PolledDisconnect499 ==
  \A r \in Reqs :
    (pc[r] = "done" /\ Blocking(r)) =>
      /\ DetectedAtPoll(r) => response[r] = ClientClosed
      /\ response[r].status = 499 => DetectedAtPoll(r)
      /\ response[r].status = 200 => ~DetectedAtPoll(r)

C4_Witness ==
  \E r \in Reqs :
    /\ pc[r] = "done" /\ Blocking(r)
    /\ discAt[r].pc = "b_poll"
    /\ Len(Elems(r)) = 2
    /\ final_output[r] = Elems(r)[1]
    /\ response[r] = ClientClosed

\* C5 (as claimed): every streaming exchange that ends has run the cleanup
\* hook, that is, engine.abort was called with the session's id.
C5_HookAlwaysRuns ==
  \A r \in Reqs :
    (Streaming(r) /\ pc[r] = "done") => Aborts(r) >= 1

\* C5 (amended): the hook runs, once, when the stream ends by natural
\* completion or by a client disconnect; it does not run when the engine
\* raises while streaming.
C5_HookRunsUnlessError ==
  \A r \in Reqs :
    (Streaming(r) /\ pc[r] = "done") =>
      /\ session[request_id[r]] \in Terminal
      /\ session[request_id[r]] # "Failed" => Aborts(r) = 1
      /\ session[request_id[r]] = "Failed" => Aborts(r) = 0

C5_Witness ==
  \E r \in Reqs :
    /\ Streaming(r) /\ pc[r] = "done"
    /\ session[request_id[r]] = "Completed"
    /\ connected(r)
    /\ Len(sent[r]) = 2
    /\ Aborts(r) = 1

\* C6: an abort of a session in a terminal state changes neither the
\* session's state nor anything already delivered (accepted chunks, a
\* response already produced).
C6_AbortIdempotent ==
  [][\A u \in Ids :
       (Len(aborts'[u]) > Len(aborts[u]) /\ session[u] \in Terminal) =>
         /\ session'[u] = session[u]
         /\ sent' = sent
         /\ \A r \in Reqs : response[r] # NoResponse => response'[r] = response[r]
    ]_vars

C6_Witness ==
  \E r \in Reqs :
    /\ Streaming(r) /\ pc[r] = "done"
    /\ Aborts(r) = 1
    /\ session[request_id[r]] = "Completed"
    /\ Len(sent[r]) >= 1

\* C7 (as claimed): a body without "prompt" is answered 4xx, and nothing
\* reaches the engine: no id is drawn, no submit, no abort.
C7_MissingPromptIs4xx ==
  \A r \in Reqs :
    (pc[r] = "done" /\ body[r].sent /\ ~body[r].hasPrompt) =>
      /\ response[r].status \in 400..499
      /\ request_id[r] = NoId
      /\ \A u \in Ids : submits[u] = <<>> /\ aborts[u] = <<>>

\* C8 (as claimed): sampling options the engine's validation rejects are
\* answered 4xx, and the request is never submitted, in either stream mode.
C8_BadSamplingIs4xx ==
  \A r \in Reqs :
    (pc[r] = "done" /\ body[r].hasPrompt /\ ~SamplingParamsOk(body[r])) =>
      /\ response[r].status \in 400..499
      /\ \A u \in Ids : submits[u] = <<>>

\* The engine's sequence is monotonically extending.
Monotone(q) ==
  \A i \in 2..Len(q) : \A k \in 1..Len(q[i].outputs) :
    IsPrefix(q[i - 1].outputs[k], q[i].outputs[k])

\* C9: when the engine's sequence is monotonically extending, each chunk's
\* text entries extend the previous chunk's corresponding entries.
C9_ChunksPrefixConsistent ==
  \A r \in Reqs :
    (Streaming(r) /\ Monotone(Elems(r))) =>
      \A i \in 2..Len(chunks[r]) :
        LET before == ChunkTexts(chunks[r][i - 1])
            after == ChunkTexts(chunks[r][i])
        IN /\ Len(after) = Len(before)
           /\ \A k \in 1..Len(after) : IsPrefix(before[k], after[k])

C9_Witness ==
  \E r \in Reqs :
    /\ Streaming(r) /\ Monotone(Elems(r))
    /\ Len(chunks[r]) = 2
    /\ Len(ChunkTexts(chunks[r][2])) = 2
    /\ \A k \in 1..2 :
         Len(ChunkTexts(chunks[r][2])[k]) > Len(ChunkTexts(chunks[r][1])[k])

\* C10: in streaming mode at most one chunk is in flight; once the client has
\* disconnected no chunk is yielded or sent any more, the stream ends with the
\* chunks it had (no error chunk is added), and the abort goes to the id that
\* was submitted, and to no other.
C10_NoChunkAfterDisconnect ==
  /\ [](\A r \in Reqs : Streaming(r) =>
          /\ Len(sent[r]) <= Len(chunks[r])
          /\ Len(chunks[r]) <= Len(sent[r]) + 1)
  /\ [][\A r \in Reqs : ~connected(r) =>
          chunks'[r] = chunks[r] /\ sent'[r] = sent[r]]_vars
  /\ [](\A r \in Reqs :
          (Streaming(r) /\ pc[r] = "done" /\ ~connected(r)) =>
            /\ Len(chunks[r]) = discAt[r].elems
            /\ Len(submits[request_id[r]]) = 1
            /\ \A u \in Ids :
                 Len(aborts[u]) = (IF u = request_id[r] THEN 1 ELSE 0))

C10_Witness ==
  \E r \in Reqs :
    /\ Streaming(r) /\ pc[r] = "done"
    /\ discAt[r].pc = "s_send"
    /\ Len(chunks[r]) = 2 /\ Len(sent[r]) = 1
    /\ Aborts(r) = 1

RECURSIVE Concat(_)
Concat(q) == IF q = <<>> THEN <<>> ELSE Head(q) \o Concat(Tail(q))

EngineFailed(r) ==
  Admitted(r) /\ pc[r] = "done" /\ session[request_id[r]] = "Failed"

EntersOnlyFrom(targets, sources) ==
  \A u \in Ids :
    (session'[u] # session[u] /\ session'[u] \in targets) => session[u] \in sources

\* What the state machine allows whatever the source of Cancelled: a session
\* starts Admitted, becomes Active from Admitted, is Completed from Active,
\* Failed only in a step in which the engine raises to its waiting consumer,
\* and never leaves a terminal state.
LifecycleStep ==
  /\ EntersOnlyFrom({"Admitted"}, {"Unknown"})
  /\ EntersOnlyFrom({"Active"}, {"Admitted"})
  /\ EntersOnlyFrom({"Completed"}, {"Active"})
  /\ EntersOnlyFrom({"Unknown"}, {})
  /\ \A u \in Ids : session[u] \in Terminal => session'[u] = session[u]
  /\ \A u \in Ids :
       (session'[u] # session[u] /\ session'[u] = "Failed") =>
         \E r \in Reqs :
           /\ request_id[r] = u
           /\ pc[r] \in {"b_wait", "s_wait"}
           /\ pc'[r] = "done"
           /\ aborts' = aborts

\* C12 (as claimed): Admitted -> Streaming/Accumulating -> {Completed,
\* Cancelled, Failed}; Completed and Cancelled are entered from
\* Streaming/Accumulating only, Failed only on an engine error, and no step
\* leaves a terminal state.
C12_Lifecycle ==
  [][LifecycleStep /\ EntersOnlyFrom({"Cancelled"}, {"Active"})]_vars

\* C12 (amended): as claimed, except that Cancelled is also entered directly
\* from Admitted: a streaming request whose client is gone before the
\* response starts is aborted by the background task without its result
\* sequence ever being consumed.
C12_LifecycleCancelFromAdmitted ==
  [][LifecycleStep /\ EntersOnlyFrom({"Cancelled"}, {"Admitted", "Active"})]_vars

C12_Witness ==
  \E r \in Reqs :
    /\ Streaming(r) /\ pc[r] = "done"
    /\ discAt[r].pc = "s_start"
    /\ session[request_id[r]] = "Cancelled"
    /\ response[r] = NoResponse

\* A liveness check was made since the previous element was received (since
\* the handler began, when there is none): one check follows each element.
CheckedSinceLastElement(r) ==
  polls[r] >= (IF Elems(r) = <<>> THEN 1 ELSE Len(Elems(r)))

\* On a detected disconnect the session is cancelled and the response is the
\* client-closed one.
CancelledOnDetection(r) ==
  (Blocking(r) /\ pc[r] = "done" /\ DetectedAtPoll(r)) =>
    /\ session[request_id[r]] = "Cancelled"
    /\ response[r].status = 499
    /\ response[r].body = <<>>

\* C13 (as claimed): in blocking mode no element, the first included, is
\* requested from the engine without a liveness check since the previous
\* element was received; a detected disconnect cancels the session and ends
\* the response with the client-closed status.
C13_CheckBeforeEveryElement ==
  \A r \in Reqs :
    /\ (Blocking(r) /\ pc[r] = "b_wait") => CheckedSinceLastElement(r)
    /\ CancelledOnDetection(r)

\* C13 (amended): the liveness check follows the receipt of each element and
\* precedes keeping it and requesting the next one, so every element but the
\* first is requested after a check made since the previous element; the
\* first element is requested without any check.  A detected disconnect
\* cancels the session and ends the response with the client-closed status.
C13_CheckAfterEveryElement ==
  \A r \in Reqs :
    /\ (Blocking(r) /\ pc[r] = "b_wait") =>
         /\ polls[r] = Len(Elems(r))
         /\ final_output[r] = (IF Elems(r) = <<>> THEN None ELSE Last(Elems(r)))
    /\ (Blocking(r) /\ pc[r] = "b_poll") => polls[r] = Len(Elems(r)) - 1
    /\ CancelledOnDetection(r)

C13_Witness ==
  \E r \in Reqs :
    /\ Blocking(r) /\ pc[r] = "b_wait"
    /\ Len(Elems(r)) = 2
    /\ polls[r] = 2
    /\ connected(r)

\* C14: a blocking request whose sequence ends without an element fails (500)
\* and a 200 response is built only from an element that was retained.
C14_EmptyResultFails ==
  \A r \in Reqs :
    Blocking(r) =>
      /\ (pc[r] = "done" /\ Elems(r) = <<>>) =>
           /\ response[r].status = 500
           /\ response[r].body = <<>>
      /\ response[r].status = 200 =>
           /\ final_output[r] # None
           /\ Elems(r) # <<>>

C14_Witness ==
  \E r \in Reqs :
    /\ Blocking(r) /\ pc[r] = "done"
    /\ session[request_id[r]] = "Completed"
    /\ Elems(r) = <<>>
    /\ connected(r)
    /\ response[r].status = 500

NeverFails(r) == Admitted(r) => session[request_id[r]] # "Failed"
YieldsSomething(r) == Admitted(r) /\ Elems(r) # <<>>

\* The exchange ended by natural completion: 200 with the last element in
\* blocking mode, every chunk accepted in streaming mode.
CompletedNormally(r) ==
  /\ Admitted(r) /\ pc[r] = "done"
  /\ session[request_id[r]] = "Completed"
  /\ response[r].status = 200
  /\ Blocking(r) => JsonTexts(response[r].body) = Payload(Last(Elems(r)))
  /\ Streaming(r) => Len(sent[r]) = Len(Elems(r))

\* C15: a request whose client never disconnects, whose engine does not fail
\* and whose sequence is not empty runs to natural completion, and in
\* blocking mode no abort is ever issued for it.  (A disconnect and a failure
\* are permanent, so "never disconnects and never fails" is stated as: the
\* request completes unless it has disconnected or failed.)
C15_RunsToCompletion ==
  /\ \A r \in Reqs :
       YieldsSomething(r) ~>
         (CompletedNormally(r) \/ ~connected(r) \/ ~NeverFails(r))
  /\ [](\A r \in Reqs : (Blocking(r) /\ connected(r)) => Aborts(r) = 0)

C15_Witness ==
  \E r \in Reqs :
    /\ CompletedNormally(r) /\ Blocking(r)
    /\ connected(r)
    /\ Len(Elems(r)) = 2
    /\ Aborts(r) = 0

\* C16: in streaming mode an element is pulled from the engine's sequence
\* only when every chunk yielded before was accepted by the transport, so the
\* elements consumed exceed the chunks accepted by at most one.
C16_NoBufferingAhead ==
  /\ [](\A r \in Reqs : Streaming(r) => Len(Elems(r)) <= Len(sent[r]) + 1)
  /\ [][\A r \in Reqs :
          (Streaming(r) /\ Len(produced'[request_id[r]]) > Len(Elems(r))) =>
            /\ Len(sent[r]) = Len(Elems(r))
            /\ sent[r] = chunks[r]]_vars

C16_Witness ==
  \E r \in Reqs :
    /\ Streaming(r) /\ pc[r] = "s_send"
    /\ Len(Elems(r)) = 2
    /\ Len(sent[r]) = 1
    /\ connected(r)

\* What of a request another request's step must leave alone.
Untouched(r) ==
  /\ response'[r] = response[r]
  /\ chunks'[r] = chunks[r]
  /\ sent'[r] = sent[r]
  /\ final_output'[r] = final_output[r]
  /\ request_id'[r] = request_id[r]
  /\ Admitted(r) =>
       /\ session'[request_id[r]] = session[request_id[r]]
       /\ produced'[request_id[r]] = produced[request_id[r]]
       /\ aborts'[request_id[r]] = aborts[request_id[r]]

\* C17: concurrent requests have distinct request ids, every abort a request
\* issues carries its own id, and a step of one request (its disconnect and
\* its cancellation included) leaves every other request's session, elements
\* and output as they were.
C17_SessionsIndependent ==
  /\ [](\A r1, r2 \in Reqs :
          (r1 # r2 /\ Admitted(r1) /\ Admitted(r2)) =>
            request_id[r1] # request_id[r2])
  /\ [](\A u \in Ids : \A i \in 1..Len(aborts[u]) :
          request_id[aborts[u][i]] = u)
  /\ [][\A r \in Reqs :
          (pc'[r] = pc[r] /\ discAt'[r] = discAt[r]) => Untouched(r)]_vars

C17_Witness ==
  \E r1, r2 \in Reqs :
    /\ r1 # r2
    /\ Blocking(r1) /\ pc[r1] = "done" /\ response[r1].status = 499
    /\ session[request_id[r1]] = "Cancelled"
    /\ Streaming(r2) /\ pc[r2] = "done" /\ connected(r2)
    /\ session[request_id[r2]] = "Completed"
    /\ Len(sent[r2]) = 2

\* C18: engine.generate is called at most once for an id, and engine.abort
\* only for an id that was submitted in an earlier step.
C18_AbortAfterSubmit ==
  /\ [](\A u \in Ids :
          /\ Len(submits[u]) <= 1
          /\ aborts[u] # <<>> => Len(submits[u]) = 1)
  /\ [](\A r \in Reqs :
          Cardinality({u \in Ids : request_id[r] = u /\ submits[u] # <<>>})
            = (IF Admitted(r) THEN 1 ELSE 0))
  /\ [][\A u \in Ids :
          Len(aborts'[u]) > Len(aborts[u]) =>
            Len(submits[u]) = 1 /\ submits'[u] = submits[u]]_vars

C18_Witness ==
  \E r1, r2 \in Reqs :
    /\ r1 # r2
    /\ Admitted(r1) /\ Admitted(r2)
    /\ Aborts(r1) = 1 /\ Aborts(r2) = 1
    /\ Streaming(r1) /\ ~connected(r1)
    /\ Blocking(r2)

\* C19: in blocking mode the abort is issued at most once, only in the step
\* that follows the receipt of an element, and that step ends the request
\* with the one response 499: no element is consumed and no other response
\* is produced afterwards, so 200 and 499 exclude each other.
C19_BlockingAbortOnce ==
  /\ [](\A r \in Reqs :
          Blocking(r) =>
            /\ Aborts(r) <= 1
            /\ Aborts(r) = 1 <=> response[r].status = 499
            /\ Aborts(r) = 1 =>
                 /\ pc[r] = "done"
                 /\ response[r].body = <<>>
                 /\ request_output[r] = Last(Elems(r))
                 /\ final_output[r] # request_output[r])
  /\ [][\A r \in Reqs :
          Blocking(r) =>
            /\ Aborts(r)' > Aborts(r) =>
                 /\ pc[r] = "b_poll"
                 /\ response[r] = NoResponse
            /\ response[r] # NoResponse =>
                 /\ response'[r] = response[r]
                 /\ produced'[request_id[r]] = produced[request_id[r]]
                 /\ Aborts(r)' = Aborts(r)]_vars

C19_Witness ==
  \E r \in Reqs :
    /\ Blocking(r) /\ pc[r] = "done"
    /\ Aborts(r) = 1
    /\ response[r].status = 499
    /\ Len(Elems(r)) = 2
    /\ final_output[r] = Elems(r)[1]
    /\ ~connected(r)

=============================================================================
